---- MODULE Spec2Model ----
(***************************************************************************)
(* A model of tmhmm.py: the TMHMM model-file parser (tokens -> header and  *)
(* states -> normalized states -> matrix form), the log-space Viterbi      *)
(* decoder optimal_path, and the path summarizer.                          *)
(*                                                                         *)
(* Conventions                                                             *)
(*  - A Python dict is a sequence of <<key, value>> pairs with pairwise    *)
(*    distinct keys, in insertion order.                                   *)
(*  - A probability is an integer number of quarters (0, 1, 2, 4 stand for *)
(*    0, 0.25, 0.5, 1); its logarithm is taken in base 2, so np.log is the *)
(*    table Log below and log(0) is NegInf.                                *)
(*  - A call that raises is a record [ok |-> FALSE, err |-> <exception>].  *)
(***************************************************************************)
EXTENDS Integers, Sequences, FiniteSets, TLC

VARIABLES
    tokens,     \* the deque of tokens the parser consumes
    header,     \* parse_model's header dict
    states,     \* the dict of parsed states (name -> state dict)
    cursor,     \* position of the running loop (an index into a dict or a path)
    pc,         \* where the running function stands
    out,        \* what the running function has returned or raised so far
    given,      \* the argument the running function was called with
    model,      \* the matrix-form model bundle a caller of optimal_path holds
    sequence,   \* the sequence last handed to optimal_path
    result,     \* what the last optimal_path call returned or raised
    calls       \* how many optimal_path calls the caller has made

vars == <<tokens, header, states, cursor, pc, out, given, model, sequence, result, calls>>

parseVars  == <<tokens, header, states, cursor, pc, out, given>>
decodeVars == <<model, sequence, result, calls>>

Null == "null"

(***************************************************************************)
(* Python dicts                                                            *)
(***************************************************************************)
RECURSIVE DictIndex(_, _, _)
DictIndex(d, k, i) ==
    IF i > Len(d) THEN 0
    ELSE IF d[i][1] = k THEN i ELSE DictIndex(d, k, i + 1)

DictHas(d, k) == DictIndex(d, k, 1) # 0

DictGet(d, k) == d[DictIndex(d, k, 1)][2]

\* d[k] = v: an existing key keeps its place, a new key goes last
DictSet(d, k, v) ==
    IF DictHas(d, k)
    THEN [d EXCEPT ![DictIndex(d, k, 1)] = <<k, v>>]
    ELSE Append(d, <<k, v>>)

\* del d[k]
DictDel(d, k) ==
    LET i == DictIndex(d, k, 1)
    IN  SubSeq(d, 1, i - 1) \o SubSeq(d, i + 1, Len(d))

DictKeys(d)   == [i \in 1..Len(d) |-> d[i][1]]
DictValues(d) == [i \in 1..Len(d) |-> d[i][2]]

Min(a, b) == IF a < b THEN a ELSE b

\* dict(zip(ks, vs)): pairs up to the shorter of the two, later pairs
\* overwriting the value of a repeated key
RECURSIVE DictZipFrom(_, _, _, _)
DictZipFrom(ks, vs, i, acc) ==
    IF i > Min(Len(ks), Len(vs)) THEN acc
    ELSE DictZipFrom(ks, vs, i + 1, DictSet(acc, ks[i], vs[i]))

DictZip(ks, vs) == DictZipFrom(ks, vs, 1, <<>>)

Raise(e) == [ok |-> FALSE, err |-> e]

(***************************************************************************)
(* The parser: _parse_list, _parse_map, _parse_state, _parse_header        *)
(* A deque is a sequence, its left end first.  A parsed value is a record  *)
(* [kind, v]: a map (dict of floats), a list of tokens, an int, a token,   *)
(* or None.                                                                *)
(***************************************************************************)
\* float(token) on the tokens that occur, in quarters; other tokens are
\* no numbers
Float(tok) ==
    CASE tok = "0"    -> [ok |-> TRUE, v |-> 0]
      [] tok = "0.25" -> [ok |-> TRUE, v |-> 1]
      [] tok = "0.5"  -> [ok |-> TRUE, v |-> 2]
      [] tok = "1"    -> [ok |-> TRUE, v |-> 4]
      [] OTHER        -> Raise("ValueError")

\* int(token)
Int_(tok) ==
    CASE tok = "0" -> [ok |-> TRUE, v |-> 0]
      [] tok = "1" -> [ok |-> TRUE, v |-> 1]
      [] OTHER     -> Raise("ValueError")

AppendLeft(toks, t) == <<t>> \o toks

Val(kind, v) == [kind |-> kind, val |-> v]
None == Val("none", Null)

Returns(toks, value) == [ok |-> TRUE, tokens |-> toks, value |-> value]

\* _parse_list, with parsed_list grown so far
RECURSIVE ParseListFrom(_, _)
ParseListFrom(toks, parsed_list) ==
    IF toks = <<>> THEN Raise("IndexError")
    ELSE LET token == Head(toks)
             rest  == Tail(toks)
         IN  IF token = ";"
             THEN Returns(AppendLeft(rest, token), Val("list", parsed_list))
             ELSE ParseListFrom(rest, Append(parsed_list, token))

ParseList(toks) == ParseListFrom(toks, <<>>)

\* _parse_map, with parsed_map grown so far
RECURSIVE ParseMapFrom(_, _)
\* a fallback that puts back next_token and forgets the candidate key
ParseMapRestoreOne(toks, parsed_map) ==
    IF toks = <<>> THEN Raise("IndexError")
    ELSE LET token == Head(toks)
             rest  == Tail(toks)
         IN  IF token = ";"
             THEN Returns(AppendLeft(rest, token), Val("map", parsed_map))
             ELSE IF rest = <<>> THEN Raise("IndexError")
             ELSE LET next_token == Head(rest)
                      rest2      == Tail(rest)
                  IN  IF next_token # ":"
                      THEN Returns(AppendLeft(rest2, next_token), None)
                      ELSE IF rest2 = <<>> THEN Raise("IndexError")
                      ELSE LET value == Float(Head(rest2))
                           IN  IF ~value.ok THEN value
                               ELSE ParseMapFrom(Tail(rest2),
                                                 DictSet(parsed_map, token, value.v))

ParseMapFrom(toks, parsed_map) ==
    IF toks = <<>> THEN Raise("IndexError")
    ELSE LET token == Head(toks)
             rest  == Tail(toks)
         IN  IF token = ";"
             THEN Returns(AppendLeft(rest, token), Val("map", parsed_map))
             ELSE IF rest = <<>> THEN Raise("IndexError")
             ELSE LET next_token == Head(rest)
                      rest2      == Tail(rest)
                  IN  IF next_token # ":"
                      THEN Returns(AppendLeft(AppendLeft(rest2, next_token), token),
                                   None)
                      ELSE IF rest2 = <<>> THEN Raise("IndexError")
                      ELSE LET value == Float(Head(rest2))
                           IN  IF ~value.ok THEN value
                               ELSE ParseMapFrom(Tail(rest2),
                                                 DictSet(parsed_map, token, value.v))

ParseMap(toks) == ParseMapFrom(toks, <<>>)

\* lines 54-57: a trans or only value, a map first and a list if that
\* gives None
ParseMapOrList(toks) ==
    LET m == ParseMap(toks)
    IN  IF ~m.ok THEN m
        ELSE IF m.value.kind = "none" THEN ParseList(m.tokens)
        ELSE m

\* lines 54-61: the value of field token
ParseFieldValue(token, toks) ==
    IF token \in {"trans", "only"} THEN ParseMapOrList(toks)
    ELSE IF toks = <<>> THEN Raise("IndexError")
    ELSE IF token \in {"type", "end"}
         THEN LET n == Int_(Head(toks))
              IN  IF ~n.ok THEN n ELSE Returns(Tail(toks), Val("int", n.v))
         ELSE Returns(Tail(toks), Val("str", Head(toks)))

\* lines 50-63: the fields of a state, with parsed_state grown so far
RECURSIVE ParseFields(_, _, _)
ParseFields(toks, state_name, parsed_state) ==
    IF toks = <<>> THEN Raise("IndexError")
    ELSE LET token == Head(toks)
         IN  IF token = "}"
             THEN Returns(Tail(toks), <<state_name, parsed_state>>)
             ELSE LET f == ParseFieldValue(token, Tail(toks))
                  IN  IF ~f.ok THEN f
                      ELSE IF f.tokens = <<>> THEN Raise("IndexError")
                      ELSE ParseFields(Tail(f.tokens), state_name,
                                       DictSet(parsed_state, token, f.value))

\* _parse_state: the name, a token taken for "{", the fields
ParseState(toks) ==
    IF Len(toks) < 2 THEN Raise("IndexError")
    ELSE ParseFields(Tail(Tail(toks)), Head(toks), <<>>)

\* lines 71-76: the entries of the header
RECURSIVE ParseHeaderEntries(_, _)
ParseHeaderEntries(toks, hdr) ==
    IF toks = <<>> THEN Raise("IndexError")
    ELSE LET token == Head(toks)
         IN  IF token = "}" THEN Returns(Tail(toks), hdr)
             ELSE IF Len(toks) < 3 THEN Raise("IndexError")
             ELSE ParseHeaderEntries(SubSeq(toks, 4, Len(toks)),
                                     DictSet(hdr, token, toks[2]))

\* _parse_header: a token taken for "header", one taken for "{", the entries
ParseHeader(toks) ==
    IF Len(toks) < 2 THEN Raise("IndexError")
    ELSE ParseHeaderEntries(Tail(Tail(toks)), <<>>)

\* the characters of a token (every token of more than one character that
\* occurs in a model file below)
Chars(tok) ==
    IF Len(tok) = 1 THEN <<tok>>
    ELSE CASE tok = "header" -> <<"h", "e", "a", "d", "e", "r">>
           [] tok = "alphabet" -> <<"a", "l", "p", "h", "a", "b", "e", "t">>
           [] tok = "begin" -> <<"b", "e", "g", "i", "n">>
           [] tok = "trans" -> <<"t", "r", "a", "n", "s">>
           [] tok = "only" -> <<"o", "n", "l", "y">>
           [] tok = "label" -> <<"l", "a", "b", "e", "l">>
           [] tok = "tied_trans" -> <<"t", "i", "e", "d", "_", "t", "r", "a", "n", "s">>
           [] tok = "tied_letter" -> <<"t", "i", "e", "d", "_", "l", "e", "t", "t", "e", "r">>
           [] tok = "type" -> <<"t", "y", "p", "e">>
           [] tok = "end" -> <<"e", "n", "d">>
           [] tok = "s1" -> <<"s", "1">>
           [] tok = "s2" -> <<"s", "2">>
           [] tok = "s3" -> <<"s", "3">>
           [] tok = "AB" -> <<"A", "B">>
           [] tok = "BA" -> <<"B", "A">>
           [] tok = "0.5" -> <<"0", ".", "5">>
           [] tok = "0.25" -> <<"0", ".", "2", "5">>

(***************************************************************************)
(* _normalize_states                                                       *)
(***************************************************************************)
\* iterating a trans value: the keys of a map, the items of a list
Iterate(x) == IF x.kind = "list" THEN x.val ELSE DictKeys(x.val)

\* dict(x) for the value of an only field: a copy of a map; of a list of
\* tokens, the dict of their first to their second character when each has
\* two characters, and a ValueError otherwise
RECURSIVE PairsToDict(_, _, _)
PairsToDict(items, i, acc) ==
    IF i > Len(items) THEN acc
    ELSE PairsToDict(items, i + 1,
                     DictSet(acc, Chars(items[i])[1], Chars(items[i])[2]))

DictOf(x) ==
    IF x.kind # "list" THEN [ok |-> TRUE, value |-> x]
    ELSE IF \E i \in 1..Len(x.val) : Len(x.val[i]) # 2 THEN Raise("ValueError")
    ELSE [ok |-> TRUE, value |-> Val("strmap", PairsToDict(x.val, 1, <<>>))]

\* lines 94-98 for the state at position i of the dict
TieTrans(sts, i) ==
    LET name  == sts[i][1]
        state == sts[i][2]
    IN  IF ~DictHas(state, "tied_trans") THEN [ok |-> TRUE, states |-> sts]
        ELSE IF ~DictHas(sts, DictGet(state, "tied_trans").val) THEN Raise("KeyError")
        ELSE IF ~DictHas(state, "trans") THEN Raise("KeyError")
        ELSE LET parent_state == DictGet(sts, DictGet(state, "tied_trans").val)
             IN  IF ~DictHas(parent_state, "trans") THEN Raise("KeyError")
                 ELSE IF DictGet(parent_state, "trans").kind = "list"
                      THEN Raise("AttributeError")
                 ELSE [ok |-> TRUE,
                       states |-> DictSet(sts, name,
                          DictSet(state, "trans",
                             Val("map",
                                 DictZip(Iterate(DictGet(state, "trans")),
                                         DictValues(DictGet(parent_state, "trans").val)))))]

\* lines 101-103 for the state at position i of the dict
TieLetter(sts, i) ==
    LET name  == sts[i][1]
        state == sts[i][2]
    IN  IF ~DictHas(state, "tied_letter") THEN [ok |-> TRUE, states |-> sts]
        ELSE IF ~DictHas(sts, DictGet(state, "tied_letter").val) THEN Raise("KeyError")
        ELSE LET parent_state == DictGet(sts, DictGet(state, "tied_letter").val)
             IN  IF ~DictHas(parent_state, "only") THEN Raise("KeyError")
                 ELSE LET copy == DictOf(DictGet(parent_state, "only"))
                      IN  IF ~copy.ok THEN copy
                          ELSE [ok |-> TRUE,
                                states |-> DictSet(sts, name,
                                              DictSet(state, "only", copy.value))]

\* one iteration of the loop of lines 91-103
NormalizeOne(sts, i) ==
    LET t == TieTrans(sts, i)
    IN  IF ~t.ok THEN t ELSE TieLetter(t.states, i)

\* _normalize_states: the loop from position i on
RECURSIVE NormalizeFrom(_, _)
NormalizeFrom(sts, i) ==
    IF i > Len(sts) THEN [ok |-> TRUE, states |-> sts]
    ELSE LET r == NormalizeOne(sts, i)
         IN  IF ~r.ok THEN r ELSE NormalizeFrom(r.states, i + 1)

NormalizeStates(sts) == NormalizeFrom(sts, 1)

(***************************************************************************)
(* _to_matrix_form                                                         *)
(***************************************************************************)
\* {v: k for k, v in enumerate(xs)}: the last index of a repeated item
IndexMap(xs) ==
    [x \in {xs[i] : i \in 1..Len(xs)} |->
        (CHOOSE i \in 1..Len(xs) :
            xs[i] = x /\ \A k \in 1..Len(xs) : xs[k] = x => k <= i) - 1]

\* dict(enumerate(xs))
Enumerated(xs) == [k \in 0..(Len(xs) - 1) |-> xs[k + 1]]

\* storing a dict value into a float array: a float as it is, a string
\* through float()
Stored(kind, v) == IF kind = "strmap" THEN Float(v) ELSE [ok |-> TRUE, v |-> v]

\* lines 112-127: begin taken out, the index maps, the arrays of zeros
MatrixSetup(alphabet, sts) ==
    IF ~DictHas(sts, "begin") THEN Raise("KeyError")
    ELSE LET rest      == DictDel(sts, "begin")
             no_states == Len(rest)
             letters   == Chars(alphabet)
         IN  [ok          |-> TRUE,
              begin       |-> DictGet(sts, "begin"),
              states      |-> rest,
              state_map   |-> IndexMap(DictKeys(rest)),
              initial     |-> [i \in 0..(no_states - 1) |-> 0],
              transitions |-> [i \in 0..(no_states - 1) |->
                                 [j \in 0..(no_states - 1) |-> 0]],
              emissions   |-> [i \in 0..(no_states - 1) |->
                                 [c \in 0..(Len(letters) - 1) |-> 0]],
              char_map    |-> IndexMap(letters),
              label_map   |-> <<>>,
              name_map    |-> Enumerated(DictKeys(rest))]

\* lines 130-132 and 142-144: the items of a trans dict stored into a row
\* indexed by state
RECURSIVE StoreByState(_, _, _, _)
RECURSIVE StoreByPlace(_, _, _, _)
\* the items stored by their place in the dict, not by the state they name
StoreByPlace(items, state_map, k, row) ==
    IF k > Len(items) THEN [ok |-> TRUE, row |-> row]
    ELSE IF items[k][1] \notin DOMAIN state_map THEN Raise("KeyError")
    ELSE StoreByPlace(items, state_map, k + 1,
                      [row EXCEPT ![k - 1] = items[k][2]])

StoreByState(items, state_map, k, row) ==
    IF k > Len(items) THEN [ok |-> TRUE, row |-> row]
    ELSE IF items[k][1] \notin DOMAIN state_map THEN Raise("KeyError")
    ELSE StoreByState(items, state_map, k + 1,
                      [row EXCEPT ![state_map[items[k][1]]] = items[k][2]])

\* lines 147-149: the items of an only dict stored into a row indexed by
\* character
RECURSIVE StoreByChar(_, _, _, _, _)
StoreByChar(items, kind, char_map, k, row) ==
    IF k > Len(items) THEN [ok |-> TRUE, row |-> row]
    ELSE IF items[k][1] \notin DOMAIN char_map THEN Raise("KeyError")
    ELSE LET x == Stored(kind, items[k][2])
         IN  IF ~x.ok THEN x
             ELSE StoreByChar(items, kind, char_map, k + 1,
                              [row EXCEPT ![char_map[items[k][1]]] = x.v])

\* the items a .items() call gives, or the error it ends in
Items(d, field) ==
    IF ~DictHas(d, field) THEN Raise("KeyError")
    ELSE IF DictGet(d, field).kind = "list" THEN Raise("AttributeError")
    ELSE [ok |-> TRUE, items |-> DictGet(d, field).val, kind |-> DictGet(d, field).kind]

\* lines 130-132: the initial probabilities
MatrixInitial(mf) ==
    LET it == Items(mf.begin, "trans")
    IN  IF ~it.ok THEN it
        ELSE LET r == StoreByState(it.items, mf.state_map, 1, mf.initial)
             IN  IF ~r.ok THEN r ELSE [mf EXCEPT !.initial = r.row]

\* lines 135-149: one iteration of the loop over the states, for the state
\* at position i
MatrixState(mf, i) ==
    LET state_name     == mf.states[i][1]
        state          == mf.states[i][2]
        this_state_idx == mf.state_map[state_name]
        labelled == IF DictHas(state, "label")
                    THEN (this_state_idx :> DictGet(state, "label").val) @@ mf.label_map
                    ELSE mf.label_map
        tr == Items(state, "trans")
    IN  IF ~tr.ok THEN tr
        ELSE LET trow == StoreByState(tr.items, mf.state_map, 1,
                                      mf.transitions[this_state_idx])
             IN  IF ~trow.ok THEN trow
                 ELSE LET on == Items(state, "only")
                      IN  IF ~on.ok THEN on
                          ELSE LET erow == StoreByChar(on.items, on.kind, mf.char_map, 1,
                                                       mf.emissions[this_state_idx])
                               IN  IF ~erow.ok THEN erow
                                   ELSE [mf EXCEPT
                                           !.label_map = labelled,
                                           !.transitions[this_state_idx] = trow.row,
                                           !.emissions[this_state_idx] = erow.row]

RECURSIVE MatrixStatesFrom(_, _)
MatrixStatesFrom(mf, i) ==
    IF i > Len(mf.states) THEN mf
    ELSE LET r == MatrixState(mf, i)
         IN  IF ~r.ok THEN r ELSE MatrixStatesFrom(r, i + 1)

\* line 151: the bundle returned
Bundle(mf) ==
    [initial     |-> mf.initial,
     transitions |-> mf.transitions,
     emissions   |-> mf.emissions,
     char_map    |-> mf.char_map,
     label_map   |-> mf.label_map,
     name_map    |-> mf.name_map]

\* _to_matrix_form
ToMatrixForm(alphabet, sts) ==
    LET mf == MatrixSetup(alphabet, sts)
    IN  IF ~mf.ok THEN mf
        ELSE LET a == MatrixInitial(mf)
             IN  IF ~a.ok THEN a
                 ELSE LET b == MatrixStatesFrom(a, 1)
                      IN  IF ~b.ok THEN b
                          ELSE [ok |-> TRUE, value |-> Bundle(b)]

(***************************************************************************)
(* parse_model                                                             *)
(***************************************************************************)
\* lines 166-169: the loop over the state blocks
RECURSIVE ParseStates(_, _)
ParseStates(toks, sts) ==
    IF toks = <<>> THEN [ok |-> TRUE, states |-> sts]
    ELSE LET r == ParseState(toks)
         IN  IF ~r.ok THEN r
             ELSE ParseStates(r.tokens, DictSet(sts, r.value[1], r.value[2]))

\* lines 172-173: header['alphabet'], then the states normalized, then the
\* matrix form
BuildModel(hdr, sts) ==
    IF ~DictHas(hdr, "alphabet") THEN Raise("KeyError")
    ELSE LET n == NormalizeStates(sts)
         IN  IF ~n.ok THEN n
             ELSE LET m == ToMatrixForm(DictGet(hdr, "alphabet"), n.states)
                  IN  IF ~m.ok THEN m
                      ELSE [ok |-> TRUE, value |-> <<hdr, m.value>>]

\* parse_model on the tokens of the file
ParseModel(toks) ==
    LET h == ParseHeader(toks)
    IN  IF ~h.ok THEN h
        ELSE LET b == ParseStates(h.tokens, <<>>)
             IN  IF ~b.ok THEN b ELSE BuildModel(h.value, b.states)

(***************************************************************************)
(* optimal_path                                                            *)
(***************************************************************************)
NegInf == -1000

\* np.log on a probability given in quarters, in base 2
Log(p) ==
    CASE p = 0 -> NegInf
      [] p = 1 -> -2
      [] p = 2 -> -1
      [] p = 4 -> 0

\* IEEE addition on the values that occur: -inf absorbs
Add(a, b) == IF a = NegInf \/ b = NegInf THEN NegInf ELSE a + b

NoStates(m) == Cardinality(DOMAIN m.initial)

\* lines 206-210: the scan for the best predecessor of state j, from
\* candidate k on; best is (max_state, max_state_prob)
RECURSIVE ScanMax(_, _, _, _, _, _)
ScanMaxGE(Mprev, ltrans, j, n, k, best) ==
    IF k >= n THEN best
    ELSE LET prob == Add(Mprev[k], ltrans[k][j])
         IN  IF prob >= best.prob
             THEN ScanMax(Mprev, ltrans, j, n, k + 1, [state |-> k, prob |-> prob])
             ELSE ScanMax(Mprev, ltrans, j, n, k + 1, best)

ScanMax(Mprev, ltrans, j, n, k, best) ==
    IF k >= n THEN best
    ELSE LET prob == Add(Mprev[k], ltrans[k][j])
         IN  IF prob > best.prob
             THEN ScanMax(Mprev, ltrans, j, n, k + 1, [state |-> k, prob |-> prob])
             ELSE ScanMax(Mprev, ltrans, j, n, k + 1, best)

\* np.argmax: the first index holding the largest value
ArgMax(row) ==
    CHOOSE i \in DOMAIN row :
        /\ \A k \in DOMAIN row : row[k] <= row[i]
        /\ \A k \in DOMAIN row : k < i => row[k] < row[i]

\* a decoder that extends the best path so far, whatever the transition costs
BestPredecessorGreedy(Mprev, ltrans, j, n) ==
    LET k == ArgMax(Mprev)
    IN  [state |-> k, prob |-> Add(Mprev[k], ltrans[k][j])]

BestPredecessor(Mprev, ltrans, j, n) ==
    ScanMax(Mprev, ltrans, j, n, 0, [state |-> 0, prob |-> NegInf])

\* lines 191-193: the three arrays in log space (new arrays; the caller's
\* bundle is not written)
LogSpace(m) ==
    [initial     |-> [i \in DOMAIN m.initial |-> Log(m.initial[i])],
     transitions |-> [i \in DOMAIN m.transitions |->
                        [j \in DOMAIN m.transitions[i] |-> Log(m.transitions[i][j])]],
     emissions   |-> [i \in DOMAIN m.emissions |->
                        [c \in DOMAIN m.emissions[i] |-> Log(m.emissions[i][c])]]]

\* char_map.get(sequence[i], 0) in place of char_map[sequence[i]]
SymbolLookupDefault(seq, cm, i, n) ==
    IF n = 0 THEN [ok |-> TRUE, col |-> 0]
    ELSE IF i >= Len(seq) THEN Raise("IndexError")
    ELSE IF seq[i + 1] \notin DOMAIN cm THEN [ok |-> TRUE, col |-> 0]
    ELSE [ok |-> TRUE, col |-> cm[seq[i + 1]]]

\* char_map[sequence[i]] of lines 202 and 211, evaluated once per state
SymbolLookup(seq, cm, i, n) ==
    IF n = 0 THEN [ok |-> TRUE, col |-> 0]
    ELSE IF i >= Len(seq) THEN Raise("IndexError")
    ELSE IF seq[i + 1] \notin DOMAIN cm THEN Raise("KeyError")
    ELSE [ok |-> TRUE, col |-> cm[seq[i + 1]]]

\* lines 204-212: rows i .. T-1 of M and P
RECURSIVE FillRows(_, _, _, _, _, _, _)
FillRows(seq, lm, cm, n, i, M, P) ==
    IF i >= Len(seq) THEN [ok |-> TRUE, M |-> M, P |-> P]
    ELSE LET sym == SymbolLookup(seq, cm, i, n)
         IN  IF ~sym.ok THEN sym
             ELSE LET best == [j \in 0..(n - 1) |->
                                 BestPredecessor(M[i - 1], lm.transitions, j, n)]
                      Mrow == [j \in 0..(n - 1) |->
                                 Add(best[j].prob, lm.emissions[j][sym.col])]
                      Prow == [j \in 0..(n - 1) |-> best[j].state]
                  IN  FillRows(seq, lm, cm, n, i + 1,
                               (i :> Mrow) @@ M, (i :> Prow) @@ P)

\* lines 216-218: backtracking from position i down to 0; visited and
\* backtracked grow in the order of the loop (last position first)
RECURSIVE Backtrack(_, _, _, _, _, _)
\* label_map.get(next_state, '?') in place of label_map[next_state]
BacktrackDefault(label_map, P, i, next_state, visited, backtracked) ==
    IF i < 0 THEN [ok |-> TRUE, visited |-> visited, backtracked |-> backtracked]
    ELSE Backtrack(label_map, P, i - 1, P[i][next_state],
                   Append(visited, next_state),
                   Append(backtracked,
                          IF next_state \in DOMAIN label_map
                          THEN label_map[next_state] ELSE "?"))

Backtrack(label_map, P, i, next_state, visited, backtracked) ==
    IF i < 0 THEN [ok |-> TRUE, visited |-> visited, backtracked |-> backtracked]
    ELSE IF next_state \notin DOMAIN label_map THEN Raise("KeyError")
    ELSE Backtrack(label_map, P, i - 1, P[i][next_state],
                   Append(visited, next_state),
                   Append(backtracked, label_map[next_state]))

Reversed(s) == [i \in 1..Len(s) |-> s[Len(s) + 1 - i]]

\* ''.join(labels)
RECURSIVE Join(_)
Join(s) == IF s = <<>> THEN "" ELSE Head(s) \o Join(Tail(s))

\* optimal_path(sequence, model).  The record returned on success carries,
\* besides the pair (M, path) of line 220, the locals P, the state
\* backtracking starts from and the states it visits.
OptimalPath(seq, m) ==
    LET lm == LogSpace(m)
        cm == m.char_map
        n  == NoStates(m)
        T  == Len(seq)
        first == SymbolLookup(seq, cm, 0, n)
    IN  IF ~first.ok THEN first
        ELSE LET M0 == [j \in 0..(n - 1) |->
                          Add(lm.initial[j], lm.emissions[j][first.col])]
                 P0 == [j \in 0..(n - 1) |-> 0]
                 filled == FillRows(seq, lm, cm, n, 1, (0 :> M0), (0 :> P0))
             IN  IF ~filled.ok THEN filled
                 ELSE IF T = 0 THEN Raise("IndexError")
                 ELSE IF n = 0 THEN Raise("ValueError")
                 ELSE LET last == ArgMax(filled.M[T - 1])
                          back == Backtrack(m.label_map, filled.P, T - 1, last,
                                            <<>>, <<>>)
                      IN  IF ~back.ok THEN back
                          ELSE [ok      |-> TRUE,
                                M       |-> filled.M,
                                path    |-> Join(Reversed(back.backtracked)),
                                P       |-> filled.P,
                                last    |-> last,
                                visited |-> Reversed(back.visited)]

(***************************************************************************)
(* The decoder's callers: a model bundle and optimal_path calls on it.     *)
(* Bundles have two states and the alphabet AB; X is a symbol outside it.  *)
(***************************************************************************)
MaxT == 3

StateIdx == {0, 1}
Alphabet == <<"A", "B">>
Foreign  == "X"
AlphabetSet == {Alphabet[c] : c \in 1..Len(Alphabet)}

\* {v: k for k, v in enumerate(alphabet)}
CharMap == [s \in AlphabetSet |->
              (CHOOSE c \in 1..Len(Alphabet) : Alphabet[c] = s) - 1]

Bundles(initVals, transVals, emisVals, labelMaps) ==
    [initial     : [StateIdx -> initVals],
     transitions : [StateIdx -> [StateIdx -> transVals]],
     emissions   : [StateIdx -> [0..(Len(Alphabet) - 1) -> emisVals]],
     char_map    : {CharMap},
     label_map   : labelMaps]

SeqsUpTo(S, n) == UNION {[1..k -> S] : k \in 0..n}

ParseIdle ==
    /\ tokens = Null /\ header = Null /\ states = Null
    /\ cursor = Null /\ pc = Null /\ out = Null /\ given = Null

\* One decoding of a sequence over the alphabet, for every bundle with
\* probabilities 0, 0.25, 0.5 (emissions 0, 0.5) and both states labelled.
InitDecode ==
    /\ model \in Bundles({0, 1, 2}, {0, 1, 2}, {0, 2}, {(0 :> "i") @@ (1 :> "M")})
    /\ sequence = <<>>
    /\ result = Null
    /\ calls = 0
    /\ ParseIdle

Decode ==
    /\ calls = 0
    /\ \E seq \in SeqsUpTo(AlphabetSet, MaxT) :
          /\ sequence' = seq
          /\ result' = OptimalPath(seq, model)
    /\ calls' = 1
    /\ UNCHANGED <<model, parseVars>>

NextDecode == Decode

SpecDecode == InitDecode /\ [][NextDecode]_vars

(***************************************************************************)
(* Claims about optimal_path on labelled bundles                           *)
(***************************************************************************)
Returned == calls > 0 /\ result.ok

\* the joint log-score of the state sequence s (a function on 0..T-1)
RECURSIVE JointScore(_, _, _, _)
JointScore(m, seq, s, t) ==
    IF t = 0
    THEN Add(Log(m.initial[s[0]]), Log(m.emissions[s[0]][m.char_map[seq[1]]]))
    ELSE Add(JointScore(m, seq, s, t - 1),
             Add(Log(m.transitions[s[t - 1]][s[t]]),
                 Log(m.emissions[s[t]][m.char_map[seq[t + 1]]])))

StateSeqs(T) == [0..(T - 1) -> StateIdx]

IsMax(v, S) == v \in S /\ \A w \in S : w <= v

LabelsOf(m, s, T) == Join([t \in 1..T |-> m.label_map[s[t - 1]]])

Candidate(t, j, k) ==
    Add(result.M[t - 1][k], Log(model.transitions[k][j]))

LowestBest(f) ==
    CHOOSE k \in StateIdx :
        /\ \A k2 \in StateIdx : f[k2] <= f[k]
        /\ \A k2 \in StateIdx : (\A k3 \in StateIdx : f[k3] <= f[k2]) => k <= k2

\* C8: every backpointer P[t][j], t >= 1, is the lowest-index state among
\* those maximizing M[t-1][k] + log_transition[k][j], and backtracking
\* starts from the lowest-index state maximizing M[T-1]; ties and all
\* candidates being minus infinity included.
C8_LowestIndexWins ==
    Returned =>
        LET T == Len(sequence)
        IN  /\ \A t \in 1..(T - 1) : \A j \in StateIdx :
                  result.P[t][j] = LowestBest([k \in StateIdx |-> Candidate(t, j, k)])
            /\ result.last = LowestBest(result.M[T - 1])

\* two predecessors tie on a finite score at one step and all candidates
\* are minus infinity at another
C8_Witness ==
    /\ Returned /\ Len(sequence) = 3
    /\ \E j \in StateIdx :
          /\ Candidate(1, j, 0) = Candidate(1, j, 1)
          /\ Candidate(1, j, 0) > NegInf
          /\ result.P[1][j] = 0
    /\ \E j \in StateIdx :
          /\ Candidate(2, j, 0) = NegInf /\ Candidate(2, j, 1) = NegInf
          /\ result.P[2][j] = 0
    /\ result.M[2][0] = result.M[2][1] /\ result.last = 0

(***************************************************************************)
(* A caller that decodes, and after a call that failed on a symbol outside *)
(* the alphabet decodes again with that symbol replaced.  Bundles have     *)
(* probabilities 0 and 0.5 and any subset of their states labelled.        *)
(***************************************************************************)
HasForeign(seq) == \E i \in 1..Len(seq) : seq[i] \notin AlphabetSet

\* the sequences over the alphabet, and those with one symbol outside it
CallSeqs ==
    {seq \in SeqsUpTo(AlphabetSet \cup {Foreign}, MaxT) :
        Cardinality({i \in 1..Len(seq) : seq[i] = Foreign}) <= 1}

LabelMaps ==
    {f \in UNION {[D -> {"i", "M"}] : D \in SUBSET StateIdx} :
        \A j \in DOMAIN f : f[j] = (IF j = 0 THEN "i" ELSE "M")}

InitCalls ==
    /\ model \in Bundles({2}, {0, 2}, {0, 2}, LabelMaps)
    /\ sequence = <<>>
    /\ result = Null
    /\ calls = 0
    /\ ParseIdle

\* optimal_path(seq, model): lines 188-193 rebind local names to new
\* arrays, nothing is stored into the caller's bundle
Call ==
    /\ calls = 0
    /\ \E seq \in CallSeqs :
          /\ sequence' = seq
          /\ result' = OptimalPath(seq, model)
    /\ calls' = 1
    /\ UNCHANGED <<model, parseVars>>

Retry ==
    /\ calls = 1
    /\ ~result.ok
    /\ \E i \in 1..Len(sequence) : \E a \in AlphabetSet :
          /\ sequence[i] = Foreign
          /\ sequence' = [sequence EXCEPT ![i] = a]
          /\ result' = OptimalPath(sequence', model)
    /\ calls' = 2
    /\ UNCHANGED <<model, parseVars>>

NextCalls == Call \/ Retry

SpecCalls == InitCalls /\ [][NextCalls]_vars

\* C2: a call whose sequence holds a symbol absent from char_map, at any
\* position, ends in an error and returns neither a path nor a score
\* matrix; no call changes the caller's bundle, so the call that follows a
\* failed one runs on the bundle the failed call was given.
C2_ForeignSymbolFails ==
    /\ [](calls > 0 /\ HasForeign(sequence) =>
            /\ ~result.ok
            /\ result.err = "KeyError"
            /\ DOMAIN result = {"ok", "err"})
    /\ [][model' = model]_vars

\* a retry succeeded on three symbols after the call failed on its last one
C2_Witness ==
    /\ calls = 2 /\ result.ok
    /\ Len(sequence) = 3
    /\ result.path = "iMM"

\* the states backtracking visits whatever their labels: the decoding of
\* the same sequence on the bundle with every state labelled
Unlabelled(seq, m) ==
    OptimalPath(seq, [m EXCEPT !.label_map = [j \in StateIdx |-> "?"]])

\* C7: a call on a sequence of T >= 1 symbols of the alphabet returns a
\* path of exactly T characters, the t-th being the label of the state
\* chosen for position t, and ends in an error instead when backtracking
\* reaches a state with no entry in label_map.
C7_OneLabelPerPosition ==
    (calls > 0 /\ Len(sequence) >= 1 /\ ~HasForeign(sequence)) =>
        LET T == Len(sequence)
            chosen == Unlabelled(sequence, model).visited
        IN  IF \A t \in 1..T : chosen[t] \in DOMAIN model.label_map
            THEN /\ result.ok
                 /\ Len(result.path) = T
                 /\ result.visited = chosen
                 /\ result.visited[T] = result.last
                 /\ \A t \in 1..(T - 1) :
                       result.visited[t] = result.P[t][result.visited[t + 1]]
                 /\ result.path = Join([t \in 1..T |-> model.label_map[chosen[t]]])
            ELSE /\ ~result.ok
                 /\ result.err = "KeyError"

\* the state backtracking starts from has a label and an earlier one has
\* none
C7_Witness ==
    /\ calls > 0 /\ Len(sequence) = 3 /\ ~HasForeign(sequence)
    /\ ~result.ok
    /\ LET chosen == Unlabelled(sequence, model).visited
       IN  /\ chosen[3] \in DOMAIN model.label_map
           /\ chosen[2] \in DOMAIN model.label_map
           /\ chosen[1] \notin DOMAIN model.label_map

(***************************************************************************)
(* The value of a trans or only field: _parse_map, then _parse_list when   *)
(* it gives None (lines 55-57), on every deque of up to MaxField tokens.   *)
(***************************************************************************)
MaxField == 6

FieldTokens == {"s1", "s2", ":", ";", "0.5"}

DecodeIdle ==
    /\ model = Null /\ sequence = Null /\ result = Null /\ calls = Null

InitField ==
    /\ tokens \in SeqsUpTo(FieldTokens, MaxField)
    /\ given = tokens
    /\ pc = "parse_map"
    /\ out = Null
    /\ header = Null /\ states = Null /\ cursor = Null
    /\ DecodeIdle

\* line 55
TryMap ==
    /\ pc = "parse_map"
    /\ LET r == ParseMap(tokens)
       IN  IF ~r.ok
           THEN /\ pc' = "raised" /\ out' = r /\ UNCHANGED tokens
           ELSE /\ tokens' = r.tokens
                /\ out' = r.value
                /\ pc' = IF r.value.kind = "none" THEN "parse_list" ELSE "parsed"
    /\ UNCHANGED <<header, states, cursor, given, decodeVars>>

\* lines 56-57
TryList ==
    /\ pc = "parse_list"
    /\ LET r == ParseList(tokens)
       IN  IF ~r.ok
           THEN /\ pc' = "raised" /\ out' = r /\ UNCHANGED tokens
           ELSE /\ tokens' = r.tokens
                /\ out' = r.value
                /\ pc' = "parsed"
    /\ UNCHANGED <<header, states, cursor, given, decodeVars>>

NextField == TryMap \/ TryList

SpecField == InitField /\ [][NextField]_vars

\* the position of the first ";" of g at or after position i (0 if none)
FirstSemi(g, i) ==
    IF \E k \in i..Len(g) : g[k] = ";"
    THEN CHOOSE k \in i..Len(g) : g[k] = ";" /\ \A l \in i..(k - 1) : g[l] # ";"
    ELSE 0

\* after _parse_map gave None: the list retry returned the tokens of g from
\* position i up to the first ";" and left that ";" at the front
RetryFrom(g, i) ==
    /\ pc = "parse_list" => tokens = SubSeq(g, i, Len(g))
    /\ (pc = "parsed" /\ out.kind = "list") =>
          /\ FirstSemi(g, i) # 0
          /\ out.val = SubSeq(g, i, FirstSemi(g, i) - 1)
          /\ tokens = SubSeq(g, FirstSemi(g, i), Len(g))

\* C10 as stated: whenever _parse_map returns None the deque is exactly
\* what it was when _parse_map was called, wherever the first key without
\* ":" occurs, so the retry returns every token of the value up to the ";"
C10_DequeRestored == RetryFrom(given, 1)

\* the number of key : value triples at the front of g
LeadingPairs(g) ==
    LET K == {k \in 0..Len(g) :
                \A i \in 0..(k - 1) :
                    /\ 3 * i + 3 <= Len(g)
                    /\ g[3 * i + 1] # ";"
                    /\ g[3 * i + 2] = ":"}
    IN  CHOOSE k \in K : \A l \in K : l <= k

\* C10 amended: when _parse_map returns None the deque is what it was at
\* the call without the key : value triples already consumed (so exactly
\* what it was only when the first candidate key is the one without ":"),
\* and the retry returns the tokens from that key up to the ";", which it
\* leaves at the front.
C10_RestoredFromFailedKey ==
    /\ RetryFrom(given, 3 * LeadingPairs(given) + 1)
    /\ (pc = "parse_list" /\ given[2] # ":") => tokens = given

\* the retry returned two tokens after one pair had been consumed
C10_Witness ==
    /\ pc = "parsed" /\ out.kind = "list"
    /\ given = <<"s1", ":", "0.5", "s2", "s1", ";">>
    /\ LeadingPairs(given) = 1
    /\ out.val = <<"s2", "s1">>
    /\ tokens = <<";">>

(***************************************************************************)
(* parse_model on a model file: a well-formed file, or one of them with    *)
(* the token at one position that holds "{", ";" or "}" replaced by        *)
(* another token, taken out, or cut off with all that follows.             *)
(***************************************************************************)
HeaderBlock == <<"header", "{", "alphabet", "AB", ";", "}">>
BeginBlock  == <<"begin", "{", "trans", "s1", ":", "1", ";", "}">>
S1Block ==
    <<"s1", "{", "trans", "s1", ":", "0.5", "s2", ":", "0.5", ";",
      "only", "A", ":", "0.5", "B", ":", "0.5", ";", "label", "i", ";", "}">>
S1Alone ==
    <<"s1", "{", "trans", "s1", ":", "1", ";",
      "only", "A", ":", "0.5", "B", ":", "0.5", ";", "label", "i", ";", "}">>
S2Block ==
    <<"s2", "{", "trans", "s2", "s1", ";", "tied_trans", "s1", ";",
      "tied_letter", "s1", ";", "label", "M", ";", "type", "1", ";", "}">>

Files ==
    {HeaderBlock \o BeginBlock \o S1Alone,
     HeaderBlock \o BeginBlock \o S1Block \o S2Block,
     HeaderBlock \o S2Block \o S1Block \o BeginBlock}

Punctuation == {"{", ";", "}"}
Substitutes == {"{", ";", "}", ":", "x", "s1", "1"}

\* a file with what was done to it: nothing (at = 0), or at position at,
\* where the well-formed file holds the token requires, another token put,
\* the token taken out, or the file cut
Inputs ==
    {[tokens |-> f, at |-> 0, requires |-> ""] : f \in Files}
    \cup UNION {UNION {
        {[tokens |-> [f EXCEPT ![p] = w], at |-> p, requires |-> f[p]] :
            w \in Substitutes \ {f[p]}}
        \cup {[tokens |-> SubSeq(f, 1, p - 1) \o SubSeq(f, p + 1, Len(f)),
               at |-> p, requires |-> f[p]]}
        \cup {[tokens |-> SubSeq(f, 1, p - 1), at |-> p, requires |-> f[p]]} :
        p \in {q \in 1..Len(f) : f[q] \in Punctuation}} : f \in Files}

InitParse ==
    /\ given \in Inputs
    /\ tokens = given.tokens
    /\ header = Null /\ states = Null /\ cursor = Null /\ out = Null
    /\ pc = "header"
    /\ DecodeIdle

\* line 164
StepHeader ==
    /\ pc = "header"
    /\ LET r == ParseHeader(tokens)
       IN  IF ~r.ok
           THEN /\ pc' = "raised" /\ out' = r /\ UNCHANGED <<tokens, header, states>>
           ELSE /\ tokens' = r.tokens
                /\ header' = r.value
                /\ states' = <<>>
                /\ pc' = "states"
                /\ UNCHANGED out
    /\ UNCHANGED <<cursor, given, decodeVars>>

\* lines 167-169: one round of the loop
StepState ==
    /\ pc = "states"
    /\ tokens # <<>>
    /\ LET r == ParseState(tokens)
       IN  IF ~r.ok
           THEN /\ pc' = "raised" /\ out' = r /\ UNCHANGED <<tokens, states>>
           ELSE /\ tokens' = r.tokens
                /\ states' = DictSet(states, r.value[1], r.value[2])
                /\ UNCHANGED <<pc, out>>
    /\ UNCHANGED <<header, cursor, given, decodeVars>>

\* lines 171-173
StepBuild ==
    /\ pc = "states"
    /\ tokens = <<>>
    /\ LET r == BuildModel(header, states)
       IN  /\ out' = r
           /\ pc' = IF r.ok THEN "returned" ELSE "raised"
    /\ UNCHANGED <<tokens, header, states, cursor, given, decodeVars>>

NextParse == StepHeader \/ StepState \/ StepBuild

SpecParse == InitParse /\ [][NextParse]_vars

\* the file holds, where "{", ";" or "}" is required, another token or none
Malformed ==
    /\ given.at # 0
    /\ \/ given.at > Len(given.tokens)
       \/ given.tokens[given.at] # given.requires

\* C3: on a token sequence in which a position where the grammar requires
\* "{", ";" or "}" holds a different token or no token at all, parse_model
\* fails with an error and returns no model.
C3_MalformedRejected == Malformed => pc # "returned"

\* parse_model run on its own, in one step, agrees with the steps
ParseAgrees ==
    pc \in {"returned", "raised"} => out = ParseModel(given.tokens)

(***************************************************************************)
(* _normalize_states on a dict of three states s1, s2, s3 (in that order), *)
(* one round of its loop at a time.  The states either vary in trans and   *)
(* tied_trans, or in only and tied_letter.                                 *)
(***************************************************************************)
StateNames == <<"s1", "s2", "s3">>
NameSet == {StateNames[i] : i \in 1..Len(StateNames)}

TransValues ==
    {Val("map", <<<<"s1", 1>>, <<"s2", 2>>>>),
     Val("map", <<<<"s2", 4>>, <<"s1", 0>>, <<"s3", 2>>>>),
     Val("map", <<<<"s3", 4>>>>),
     Val("list", <<"s1", "s2">>),
     Val("list", <<"s2", "s1">>),
     Val("list", <<"s3", "s3">>)}

OnlyValues ==
    {Val("map", <<<<"A", 1>>, <<"B", 2>>>>),
     Val("map", <<<<"B", 4>>>>),
     Val("list", <<"A", "B">>)}

\* the state dicts with at most the fields field and tie
StateDicts(field, values, tie) ==
    {<<>>}
    \cup {<<<<field, v>>>> : v \in values}
    \cup {<<<<tie, Val("str", n)>>>> : n \in NameSet}
    \cup {<<<<field, v>>, <<tie, Val("str", n)>>>> : v \in values, n \in NameSet}

StatesOver(dicts) ==
    {[i \in 1..Len(StateNames) |-> <<StateNames[i], f[i]>>] :
        f \in [1..Len(StateNames) -> dicts]}

InitNorm ==
    /\ given \in StatesOver(StateDicts("trans", TransValues, "tied_trans"))
                 \cup StatesOver(StateDicts("only", OnlyValues, "tied_letter"))
    /\ states = given
    /\ cursor = 1
    /\ pc = "loop"
    /\ out = Null
    /\ tokens = Null /\ header = Null
    /\ DecodeIdle

\* lines 91-103: one round of the loop
NormalizeStep ==
    /\ pc = "loop"
    /\ cursor <= Len(states)
    /\ LET r == NormalizeOne(states, cursor)
       IN  IF ~r.ok
           THEN /\ pc' = "raised" /\ out' = r /\ UNCHANGED <<states, cursor>>
           ELSE /\ states' = r.states
                /\ cursor' = cursor + 1
                /\ UNCHANGED <<pc, out>>
    /\ UNCHANGED <<tokens, header, given, decodeVars>>

\* line 104
NormalizeReturn ==
    /\ pc = "loop"
    /\ cursor > Len(states)
    /\ pc' = "returned"
    /\ out' = [ok |-> TRUE, states |-> states]
    /\ UNCHANGED <<tokens, header, states, cursor, given, decodeVars>>

NextNorm == NormalizeStep \/ NormalizeReturn

SpecNorm == InitNorm /\ [][NextNorm]_vars

\* the states that carry tie and declared field as a list
TiedWithList(field, tie) ==
    {i \in 1..Len(given) :
        /\ DictHas(given[i][2], tie)
        /\ DictHas(given[i][2], field)
        /\ DictGet(given[i][2], field).kind = "list"}

KeySet(d) == {d[k][1] : k \in 1..Len(d)}

\* C4: after _normalize_states a state with tied_trans = X that
\* declared the target list t_0 .. t_{n-1} has a trans mapping with exactly
\* these keys that maps each t_i to the i-th value of X's trans mapping,
\* for every n and every size of X's mapping.
C4_PositionalPairing ==
    pc = "returned" =>
        \A i \in TiedWithList("trans", "tied_trans") :
            LET targets == DictGet(given[i][2], "trans").val
                X       == DictGet(given[i][2], "tied_trans").val
                parent  == DictGet(DictGet(states, X), "trans").val
                mine    == DictGet(states[i][2], "trans").val
            IN  /\ KeySet(mine) = {targets[k] : k \in 1..Len(targets)}
                /\ \A k \in 1..Len(targets) :
                      /\ k <= Len(parent)
                      /\ DictGet(mine, targets[k]) = parent[k][2]

\* C5: after _normalize_states returns, a state that carries tied_letter = X
\* has an only mapping equal to the only mapping X has then, wherever X is
\* in the file and also when X carries a tied_letter of its own.
C5_TiedLetterEqualsParent ==
    pc = "returned" =>
        \A i \in 1..Len(states) :
            DictHas(given[i][2], "tied_letter") =>
                LET X == DictGet(given[i][2], "tied_letter").val
                IN  /\ DictHas(states[i][2], "only")
                    /\ DictHas(DictGet(states, X), "only")
                    /\ DictGet(states[i][2], "only") = DictGet(DictGet(states, X), "only")

(***************************************************************************)
(* _to_matrix_form on begin and the states s1, s2, in any place of begin,  *)
(* one step of the function at a time.  The alphabet has distinct symbols. *)
(***************************************************************************)
Alphabets == {"AB", "BA"}

BeginTrans ==
    {<<>>, <<<<"s1", 4>>>>, <<<<"s2", 2>>>>,
     <<<<"s1", 1>>, <<"s2", 2>>>>, <<<<"s2", 1>>, <<"s1", 2>>>>, <<<<"s3", 4>>>>}

RealTrans ==
    {<<>>, <<<<"s1", 4>>>>, <<<<"s2", 1>>, <<"s1", 2>>>>, <<<<"begin", 4>>>>}

RealOnly ==
    {<<>>, <<<<"A", 4>>>>, <<<<"B", 1>>, <<"A", 2>>>>, <<<<"C", 4>>>>}

RealStates ==
    {<<<<"trans", Val("map", t)>>, <<"only", Val("map", o)>>>> :
        t \in RealTrans, o \in RealOnly}
    \cup {<<<<"label", Val("str", "i")>>, <<"trans", Val("map", t)>>,
            <<"only", Val("map", o)>>>> : t \in RealTrans, o \in RealOnly}

\* begin put at place k of the dict
PlacedAt(k, b, rest) ==
    SubSeq(rest, 1, k - 1) \o <<<<"begin", b>>>> \o SubSeq(rest, k, Len(rest))

MatrixInputs ==
    {[alphabet |-> a,
      states   |-> PlacedAt(k, <<<<"trans", Val("map", b)>>>>,
                            <<<<"s1", x>>, <<"s2", y>>>>)] :
        a \in Alphabets, k \in 1..3, b \in BeginTrans,
        x \in RealStates, y \in RealStates}

InitMatrix ==
    /\ given \in MatrixInputs
    /\ states = given.states
    /\ header = <<<<"alphabet", given.alphabet>>>>
    /\ pc = "setup"
    /\ cursor = Null /\ out = Null /\ tokens = Null
    /\ DecodeIdle

\* lines 112-127
MatrixSetupStep ==
    /\ pc = "setup"
    /\ LET r == MatrixSetup(DictGet(header, "alphabet"), states)
       IN  /\ out' = r
           /\ states' = IF r.ok THEN r.states ELSE states
           /\ pc' = IF r.ok THEN "initial" ELSE "raised"
    /\ UNCHANGED <<tokens, header, cursor, given, decodeVars>>

\* lines 130-132
MatrixInitialStep ==
    /\ pc = "initial"
    /\ LET r == MatrixInitial(out)
       IN  /\ out' = r
           /\ pc' = IF r.ok THEN "states" ELSE "raised"
    /\ cursor' = 1
    /\ UNCHANGED <<tokens, header, states, given, decodeVars>>

\* lines 134-149: one round of the loop
MatrixStateStep ==
    /\ pc = "states"
    /\ cursor <= Len(states)
    /\ LET r == MatrixState(out, cursor)
       IN  /\ out' = r
           /\ pc' = IF r.ok THEN "states" ELSE "raised"
    /\ cursor' = cursor + 1
    /\ UNCHANGED <<tokens, header, states, given, decodeVars>>

\* line 151
MatrixReturn ==
    /\ pc = "states"
    /\ cursor > Len(states)
    /\ pc' = "returned"
    /\ out' = Bundle(out)
    /\ UNCHANGED <<tokens, header, states, cursor, given, decodeVars>>

NextMatrix ==
    MatrixSetupStep \/ MatrixInitialStep \/ MatrixStateStep \/ MatrixReturn

SpecMatrix == InitMatrix /\ [][NextMatrix]_vars

\* the non-begin states of the dict handed in, in insertion order
RealOf(sts) == SelectSeq(sts, LAMBDA e : e[1] # "begin")

Declared(d, k) == IF DictHas(d, k) THEN DictGet(d, k) ELSE 0

\* C6: with state index i the i-th non-begin state in insertion order and
\* symbol index c the c-th symbol of the header alphabet, initial[i] is
\* begin.trans[name_i] when begin declares it and 0 otherwise,
\* transitions[i][j] is state i's trans[name_j] when declared and 0
\* otherwise, emissions[i][c] is state i's only[symbol_c] when declared and
\* 0 otherwise, and label_map and name_map use the same state index.
C6_MatricesMatchDeclarations ==
    pc = "returned" =>
        LET real    == RealOf(given.states)
            begin   == DictGet(given.states, "begin")
            symbols == Chars(given.alphabet)
            n       == Len(real)
            fieldOf(i, f) == DictGet(real[i + 1][2], f).val
        IN  /\ DOMAIN out.initial = 0..(n - 1)
            /\ \A i \in 0..(n - 1) :
                  /\ out.initial[i] = Declared(DictGet(begin, "trans").val, real[i + 1][1])
                  /\ DOMAIN out.transitions[i] = 0..(n - 1)
                  /\ \A j \in 0..(n - 1) :
                        out.transitions[i][j] = Declared(fieldOf(i, "trans"), real[j + 1][1])
                  /\ DOMAIN out.emissions[i] = 0..(Len(symbols) - 1)
                  /\ \A c \in 0..(Len(symbols) - 1) :
                        out.emissions[i][c] = Declared(fieldOf(i, "only"), symbols[c + 1])
                  /\ out.name_map[i] = real[i + 1][1]
                  /\ (i \in DOMAIN out.label_map) <=> DictHas(real[i + 1][2], "label")
                  /\ (i \in DOMAIN out.label_map) => out.label_map[i] = fieldOf(i, "label")
            /\ \A c \in 0..(Len(symbols) - 1) : out.char_map[symbols[c + 1]] = c

\* begin stands between the two states, declares only the second, and the
\* second state declares its transitions and emissions out of index order
C6_Witness ==
    /\ pc = "returned"
    /\ given.alphabet = "AB"
    /\ DictKeys(given.states) = <<"s1", "begin", "s2">>
    /\ out.initial = (0 :> 0) @@ (1 :> 2)
    /\ out.transitions[1] = (0 :> 2) @@ (1 :> 1)
    /\ out.emissions[1] = (0 :> 2) @@ (1 :> 1)
    /\ out.emissions[0] = (0 :> 4) @@ (1 :> 0)
    /\ DOMAIN out.label_map = {1}

(***************************************************************************)
(* summarize, the generator the script runs over a decoded path: each step *)
(* takes the next group of itertools.groupby and yields its triple.        *)
(***************************************************************************)
MaxPath == 8

Labels == {"i", "M", "o"}

\* enumerate(path): the pair of place i, counted from 0
Enumerate(path, i) == <<i, path[i + 1]>>

\* the next group of groupby: the pairs from place i on whose key, the
\* label, equals the key of the pair at i
RECURSIVE GroupFrom(_, _, _)
GroupFrom(path, i, key) ==
    IF i >= Len(path) \/ Enumerate(path, i)[2] # key THEN <<>>
    ELSE <<Enumerate(path, i)>> \o GroupFrom(path, i + 1, key)

\* the end taken one past the last place of the group
GroupEndExclusive(group) ==
    (CHOOSE x \in {group[k] : k \in 1..Len(group)} :
        \A k \in 1..Len(group) : group[k][1] <= x[1])[1] + 1

\* line 228: min(group, key=lambda x: x[0])[0]
GroupStart(group) ==
    (CHOOSE x \in {group[k] : k \in 1..Len(group)} :
        \A k \in 1..Len(group) : x[1] <= group[k][1])[1]

\* line 229: max(group, key=lambda x: x[0])[0]
GroupEnd(group) ==
    (CHOOSE x \in {group[k] : k \in 1..Len(group)} :
        \A k \in 1..Len(group) : group[k][1] <= x[1])[1]

InitSum ==
    /\ given \in SeqsUpTo(Labels, MaxPath)
    /\ cursor = 0
    /\ out = <<>>
    /\ pc = "running"
    /\ tokens = Null /\ header = Null /\ states = Null
    /\ DecodeIdle

\* lines 226-230: one round of the loop, up to the yield
YieldGroup ==
    /\ pc = "running"
    /\ cursor < Len(given)
    /\ LET state == Enumerate(given, cursor)[2]
           group == GroupFrom(given, cursor, state)
           start == GroupStart(group)
           end   == GroupEnd(group)
       IN  /\ out' = Append(out, <<start, end, state>>)
           /\ cursor' = cursor + Len(group)
    /\ UNCHANGED <<tokens, header, states, pc, given, decodeVars>>

\* line 226: groupby is exhausted, the generator ends
Exhausted ==
    /\ pc = "running"
    /\ cursor >= Len(given)
    /\ pc' = "done"
    /\ UNCHANGED <<tokens, header, states, cursor, out, given, decodeVars>>

NextSum == YieldGroup \/ Exhausted

SpecSum == InitSum /\ [][NextSum]_vars

====
